---- MODULE Spec2Model ----
(***************************************************************************)
(* The lobby state store of crates/lobby/src/state.rs: a coarse index      *)
(* (parking_lot RwLock<StorageState>) over per-entity tokio Mutexes, the   *)
(* two-phase lease protocol of StorageHandle and the guards                *)
(* LockedPlayerState / LockedGameState.                                    *)
(*                                                                         *)
(* Every critical section of the index RwLock is one atomic step: the lock *)
(* is a blocking lock that is never held across an .await, so a section    *)
(* always runs to its end.  The steps of one call are separated exactly    *)
(* where the code leaves the index lock or awaits an entity Mutex.         *)
(***************************************************************************)
EXTENDS Integers, Sequences, FiniteSets, TLC

\* ------------------------------------------------------------ bounds
NumTasks == 2
\* number of rows of the seed data handed to StorageState::new
MaxSeedRows == 2
\* width of usize in the model (the count cache is a usize)
UsizeBits == 2

Tasks == 1..NumTasks
PlayerIds == {1, 2, 3}
GameIds == {7, 8}
\* Arc allocations that can be alive at once: one per index entry and one
\* per task holding a clone of a replaced or purged Arc
RecIds == 1..(Cardinality(GameIds) + NumTasks)
UsizeModulus == 2 ^ UsizeBits

\* ------------------------------------------------------------ Option
None == <<>>
Some(x) == <<x>>
IsSome(o) == o # None
Unwrap(o) == o[1]

\* ------------------------------------------------------------ Vec<i32>
Contains(v, x) == \E i \in 1..Len(v) : v[i] = x
Occurrences(v, x) == Cardinality({i \in 1..Len(v) : v[i] = x})
RECURSIVE Retain(_, _)
\* Vec::retain(|id| *id != x): keeps the other elements in order
Retain(v, x) ==
  IF v = <<>> THEN <<>>
  ELSE IF Head(v) = x THEN Retain(Tail(v), x)
       ELSE <<Head(v)>> \o Retain(Tail(v), x)

SeqsUpTo(S, n) == UNION {[1..k -> S] : k \in 0..n}
\* the member lists over the player ids S that are no longer than S is large
\* (with repetitions: a &[i32] or a Vec<i32> is not checked for them)
ListsOver(S) == SeqsUpTo(S, Cardinality(S))

\* ------------------------------------------------------------ records
\* GameState::new(players)
GameStateNew(players) == [players |-> players, closed |-> FALSE]
\* (variant: a default record that is attached to a game)
PlayerStateAttached == [game_id |-> Some(7), sender |-> None]
\* PlayerState::default()
PlayerStateDefault == [game_id |-> None, sender |-> None]
\* Arc::new(Mutex::new(v)): the value behind a fresh, unlocked Mutex
ArcMutexNew(v) == [value |-> v, locked |-> FALSE]
\* a heap cell no Arc points to
FreeCell == [value |-> GameStateNew(<<>>), locked |-> FALSE, live |-> FALSE]
GameCell(v) == [value |-> v, locked |-> FALSE, live |-> TRUE]

VARIABLES
  players,           \* StorageState.players: id -> Option<Arc<Mutex<PlayerState>>>
  games,             \* StorageState.games: id -> Option<Arc<Mutex<GameState>>> (a RecId)
  game_num_players,  \* StorageState.game_num_players: id -> Option<usize>
  heap,              \* the Arc<Mutex<GameState>> allocations
  tasks,             \* each task's position in the call it is executing
  seed               \* history: the rows StorageState::new was given

vars == <<players, games, game_num_players, heap, tasks, seed>>

\* pc: the position in the call; id, state: the call's locals (the id asked
\* for, the Arc looked up); created: or_insert_with ran its closure in this
\* call; fresh (history): created, and no guard has called join_game on the
\* record since; entries, at: the &mut [GameEntry] of fetch_num_players and
\* the position of its loop; index: the mode ("none", "read", "write") in
\* which the task holds the index RwLock at its position; abandoned
\* (history): the future of the task's last lease was dropped before it
\* completed
IdleTask ==
  [pc |-> "idle", id |-> 0, state |-> None, created |-> FALSE, fresh |-> FALSE,
   entries |-> <<>>, at |-> 0, index |-> "none", abandoned |-> FALSE]

\* ------------------------------------------------------------ heap
\* the allocation a fresh Arc gets: the lowest free cell
NewRec(h) == CHOOSE r \in RecIds : ~h[r].live /\ \A q \in RecIds : q < r => h[q].live

\* Arc pointers are opaque: after every step that creates or drops an Arc the
\* cells are renamed in the order of their first referrer (the index entries
\* by game id, then the tasks), and a cell nothing refers to is freed
\* (reference counting).
GameIdSeq == <<7, 8>>
RefsInOrder(g, tk) ==
  [i \in 1..(Len(GameIdSeq) + NumTasks) |->
     IF i <= Len(GameIdSeq) THEN g[GameIdSeq[i]] ELSE tk[i - Len(GameIdSeq)].state]
RECURSIVE FirstRefs(_, _, _)
\* the cells referred to, each once, in the order of their first referrer
FirstRefs(refs, i, acc) ==
  IF i > Len(refs) THEN acc
  ELSE IF IsSome(refs[i]) /\ ~(\E k \in 1..Len(acc) : acc[k] = Unwrap(refs[i]))
       THEN FirstRefs(refs, i + 1, Append(acc, Unwrap(refs[i])))
       ELSE FirstRefs(refs, i + 1, acc)
Rename(order, o) ==
  IF IsSome(o) THEN Some(CHOOSE k \in 1..Len(order) : order[k] = Unwrap(o)) ELSE None
Canon(h, g, tk) ==
  LET order == FirstRefs(RefsInOrder(g, tk), 1, <<>>) IN
  [heap |-> [n \in RecIds |-> IF n <= Len(order) THEN h[order[n]] ELSE FreeCell],
   games |-> [id \in GameIds |-> Rename(order, g[id])],
   tasks |-> [t \in Tasks |-> [tk[t] EXCEPT !.state = Rename(order, @)]]]
\* the step's new heap, index entries and task references
Commit(h, g, tk) ==
  LET c == Canon(h, g, tk) IN
  /\ heap' = c.heap
  /\ games' = c.games
  /\ tasks' = c.tasks

\* ------------------------------------------------------------ construction
\* the seed data of at most MaxSeedRows rows over game ids G and player ids P
SeedsOver(G, P) == SeqsUpTo([id : G, players : ListsOver(P)], MaxSeedRows)

\* (variant: the seeded player record is left unattached)
SeedPlayerDefault(item) == Some(ArcMutexNew(PlayerStateDefault))
\* the record StorageState::new inserts for a listed player
SeedPlayer(item) == Some(ArcMutexNew([game_id |-> Some(item.id), sender |-> None]))
\* game_num_players.insert(item.id, item.players.len())
SeedCount(item) == Some(Len(item.players) % UsizeModulus)

RECURSIVE StorageStateNewFrom(_, _)
\* the loop of StorageState::new over the rows of data, in order
StorageStateNewFrom(s, data) ==
  IF data = <<>> THEN s
  ELSE
    LET item == Head(data)
        r == IF IsSome(s.games[item.id]) THEN Unwrap(s.games[item.id]) ELSE NewRec(s.heap)
        pl == [p \in PlayerIds |->
                 IF Contains(item.players, p) THEN SeedPlayer(item) ELSE s.players[p]]
    IN StorageStateNewFrom(
         [players |-> pl,
          games |-> [s.games EXCEPT ![item.id] = Some(r)],
          game_num_players |-> [s.game_num_players EXCEPT ![item.id] = SeedCount(item)],
          heap |-> [s.heap EXCEPT ![r] = GameCell([players |-> item.players, closed |-> FALSE])]],
         Tail(data))

StorageStateNew(data) ==
  StorageStateNewFrom(
    [players |-> [p \in PlayerIds |-> None],
     games |-> [g \in GameIds |-> None],
     game_num_players |-> [g \in GameIds |-> None],
     heap |-> [r \in RecIds |-> FreeCell]],
    data)

\* Storage::init: the state after construction
Boot(data) ==
  LET s == StorageStateNew(data)
      c == Canon(s.heap, s.games, [t \in Tasks |-> IdleTask])
  IN
  /\ players = s.players
  /\ games = c.games
  /\ game_num_players = s.game_num_players
  /\ heap = c.heap
  /\ tasks = c.tasks

\* ------------------------------------------------------------ usize
\* `*v + 1` and `*v - 1` on a usize: a panic in a build with overflow checks
\* (debug), wrapping in a build without them (release); both are outcomes of
\* the same source
Overflows(v, delta) == v + delta < 0 \/ v + delta >= UsizeModulus
Wrapping(v, delta) == (v + delta + UsizeModulus) % UsizeModulus

\* `num as i32`: the low bits of the usize, read as a two's complement number
\* (an i32 is no wider than a usize)
I32Modulus == UsizeModulus
AsI32(num) ==
  LET low == num % I32Modulus IN
  IF low >= I32Modulus \div 2 THEN low - I32Modulus ELSE low

\* ------------------------------------------------------------ tokio Mutex
\* (variant: a lock that never makes the caller wait)
MutexFreeAlways(cell) == TRUE
\* (variant: one lock for all game records)
MutexFreeOfAll(cell) == \A r \in RecIds : ~heap[r].locked
\* lock_owned().await completes only while the Mutex is unlocked
MutexFree(cell) == ~cell.locked
Lock(cell) == [cell EXCEPT !.locked = TRUE]
\* (variant: a guard whose drop leaves the Mutex locked)
UnlockLeaks(cell) == cell
\* dropping the OwnedMutexGuard
Unlock(cell) == [cell EXCEPT !.locked = FALSE]

\* (variant: the abandoned waiter had been handed the lock and keeps it)
AbandonWaitKeepsLock(cell) == Lock(cell)
\* the future of lock_owned() is dropped while it waits: the waiter leaves
\* the queue of the Mutex, which is as it was
AbandonWait(cell) == cell

\* ------------------------------------------------------------ index RwLock
\* self.0.read() / self.0.write() return only while no other task holds the
\* lock in a conflicting mode (parking_lot's RwLock blocks the thread)
IndexAvailable(t, mode) ==
  \A u \in Tasks \ {t} :
    \/ tasks[u].index = "none"
    \/ mode = "read" /\ tasks[u].index = "read"
\* (variant: the read guard of lock_game_state lives to the end of the call)
GameLookupHoldsRead == "read"
\* the block around the lookup of lock_game_state ends, and drops the read
\* guard, before state.lock_owned().await
GameLookupHolds == "none"
\* the block around the find-or-create of lock_player_state ends, and drops
\* the write guard, before state.lock_owned().await
PlayerLookupHolds == "none"

\* ------------------------------------------------------------ StorageHandle
\* the index section of register_game: count first, then a fresh Arc
\* (variant: entry(id).or_insert(len) in place of insert(id, len))
RegisterCountOrInsert(id, ps) ==
  IF IsSome(game_num_players[id]) THEN game_num_players
  ELSE [game_num_players EXCEPT ![id] = Some(Len(ps) % UsizeModulus)]
\* game_num_players.insert(id, players.len())
RegisterCount(id, ps) == [game_num_players EXCEPT ![id] = Some(Len(ps) % UsizeModulus)]
RegisterCell(ps) == GameCell(GameStateNew(ps))

register_game(t, id, ps) ==
  LET r == NewRec(heap) IN
  /\ tasks[t].pc = "idle"
  /\ IndexAvailable(t, "write")
  /\ game_num_players' = RegisterCount(id, ps)
  /\ Commit([heap EXCEPT ![r] = RegisterCell(ps)], [games EXCEPT ![id] = Some(r)], tasks)
  /\ UNCHANGED <<players, seed>>

\* (variant: players.insert(id, default), whatever is stored under id)
PlayersInsert(id) == [players EXCEPT ![id] = Some(ArcMutexNew(PlayerStateDefault))]
\* players.entry(id).or_insert_with(default)
PlayersEntryOrInsert(id) ==
  IF IsSome(players[id]) THEN players
  ELSE [players EXCEPT ![id] = Some(ArcMutexNew(PlayerStateDefault))]

\* lock_player_state, phase 1: find or create under the index write lock
lock_player_state_lookup(t, id) ==
  /\ tasks[t].pc = "idle"
  /\ IndexAvailable(t, "write")
  /\ players' = PlayersEntryOrInsert(id)
  /\ tasks' = [tasks EXCEPT ![t] =
       [IdleTask EXCEPT !.pc = "lock_player_state_await", !.id = id,
          !.created = ~IsSome(players[id]), !.fresh = ~IsSome(players[id]),
          !.index = PlayerLookupHolds]]
  /\ UNCHANGED <<games, game_num_players, heap, seed>>

\* lock_player_state, phase 2: state.lock_owned().await
lock_player_state_acquire(t) ==
  LET id == tasks[t].id IN
  /\ tasks[t].pc = "lock_player_state_await"
  /\ MutexFree(Unwrap(players[id]))
  /\ players' = [players EXCEPT ![id] = Some(Lock(Unwrap(@)))]
  /\ tasks' = [tasks EXCEPT ![t].pc = "player_guard"]
  /\ UNCHANGED <<games, game_num_players, heap, seed>>

\* lock_game_state, phase 1, games.get(&id) is None
lock_game_state_miss(t, id) ==
  /\ tasks[t].pc = "idle"
  /\ IndexAvailable(t, "read")
  /\ ~IsSome(games[id])
  /\ UNCHANGED vars

\* lock_game_state, phase 1, games.get(&id).cloned() is Some
lock_game_state_lookup(t, id) ==
  /\ tasks[t].pc = "idle"
  /\ IndexAvailable(t, "read")
  /\ IsSome(games[id])
  /\ Commit(heap, games, [tasks EXCEPT ![t] =
       [IdleTask EXCEPT !.pc = "lock_game_state_await", !.id = id, !.state = games[id],
          !.index = GameLookupHolds]])
  /\ UNCHANGED <<players, game_num_players, seed>>

\* (variant: the closed flag is not looked at)
AfterGameLockUnchecked(cell) == "game_guard"
\* what lock_game_state does with the guard it acquired
AfterGameLock(cell) == IF cell.value.closed THEN "lock_game_state_purge" ELSE "game_guard"

\* lock_game_state, phase 2: state.lock_owned().await, then the closed check
lock_game_state_acquire(t) ==
  LET r == Unwrap(tasks[t].state) IN
  /\ tasks[t].pc = "lock_game_state_await"
  /\ MutexFree(heap[r])
  /\ heap' = [heap EXCEPT ![r] = Lock(@)]
  /\ tasks' = [tasks EXCEPT ![t].pc = AfterGameLock(heap[r])]
  /\ UNCHANGED <<players, games, game_num_players, seed>>

\* the index section of the closed branch: games.remove(&id)
PurgeGames(id) == [games EXCEPT ![id] = None]
PurgeCounts(id) == game_num_players

\* lock_game_state, closed branch: purge under the index write lock, drop the
\* entity guard at the end of the arm, return None
lock_game_state_purge(t) ==
  LET r == Unwrap(tasks[t].state) IN
  /\ tasks[t].pc = "lock_game_state_purge"
  /\ IndexAvailable(t, "write")
  /\ game_num_players' = PurgeCounts(tasks[t].id)
  /\ Commit([heap EXCEPT ![r] = Unlock(@)], PurgeGames(tasks[t].id),
            [tasks EXCEPT ![t] = IdleTask])
  /\ UNCHANGED <<players, seed>>

\* one turn of the loop of fetch_num_players on the entry `game`, under the
\* index read lock
FetchEntry(game) ==
  IF IsSome(game_num_players[game.id])
  THEN [game EXCEPT !.num_players = AsI32(Unwrap(game_num_players[game.id]))]
  ELSE game

\* fetch_num_players is called with the slice es
fetch_num_players(t, es) ==
  /\ tasks[t].pc = "idle"
  /\ tasks' = [tasks EXCEPT ![t] =
       [IdleTask EXCEPT !.pc = "fetch_num_players", !.entries = es, !.at = 1]]
  /\ UNCHANGED <<players, games, game_num_players, heap, seed>>

\* the loop body: self.0.read() is taken and released for each entry
fetch_num_players_entry(t) ==
  /\ tasks[t].pc = "fetch_num_players"
  /\ tasks[t].at <= Len(tasks[t].entries)
  /\ IndexAvailable(t, "read")
  /\ tasks' = [tasks EXCEPT ![t].entries[tasks[t].at] = FetchEntry(@), ![t].at = @ + 1]
  /\ UNCHANGED <<players, games, game_num_players, heap, seed>>

\* the loop is over: the call returns, the caller has the slice
fetch_num_players_return(t) ==
  /\ tasks[t].pc = "fetch_num_players"
  /\ tasks[t].at > Len(tasks[t].entries)
  /\ tasks' = [tasks EXCEPT ![t] = IdleTask]
  /\ UNCHANGED <<players, games, game_num_players, heap, seed>>

\* the caller drops the future of lock_player_state at state.lock_owned().await
abandon_lock_player_state(t) ==
  /\ tasks[t].pc = "lock_player_state_await"
  /\ players' = [players EXCEPT ![tasks[t].id] = Some(AbandonWait(Unwrap(@)))]
  /\ tasks' = [tasks EXCEPT ![t] = [IdleTask EXCEPT !.abandoned = TRUE]]
  /\ UNCHANGED <<games, game_num_players, heap, seed>>

\* the caller drops the future of lock_game_state at state.lock_owned().await:
\* the call's clone of the Arc goes with it
abandon_lock_game_state(t) ==
  LET r == Unwrap(tasks[t].state) IN
  /\ tasks[t].pc = "lock_game_state_await"
  /\ Commit([heap EXCEPT ![r] = AbandonWait(@)], games,
            [tasks EXCEPT ![t] = [IdleTask EXCEPT !.abandoned = TRUE]])
  /\ UNCHANGED <<players, game_num_players, seed>>

\* ------------------------------------------------------------ LockedPlayerState
HoldsPlayerGuard(t) == tasks[t].pc = "player_guard"
\* joined_game_id(): the record's game_id, read through the guard
joined_game_id(t) == Unwrap(players[tasks[t].id]).value.game_id

\* history: the calls that wait for the record of player id are no longer
\* the first to see it since it was created
NoLongerFresh(id) ==
  [u \in Tasks |->
     IF tasks[u].pc = "lock_player_state_await" /\ tasks[u].id = id
     THEN [tasks[u] EXCEPT !.fresh = FALSE] ELSE tasks[u]]

join_game(t, game_id) ==
  /\ HoldsPlayerGuard(t)
  /\ players' = [players EXCEPT ![tasks[t].id] =
       Some([Unwrap(@) EXCEPT !.value.game_id = Some(game_id)])]
  /\ tasks' = NoLongerFresh(tasks[t].id)
  /\ UNCHANGED <<games, game_num_players, heap, seed>>

leave_game(t) ==
  /\ HoldsPlayerGuard(t)
  /\ players' = [players EXCEPT ![tasks[t].id] =
       Some([Unwrap(@) EXCEPT !.value.game_id = None])]
  /\ UNCHANGED <<games, game_num_players, heap, tasks, seed>>

\* the LockedPlayerState goes out of scope: the OwnedMutexGuard is dropped
drop_player_guard(t) ==
  /\ HoldsPlayerGuard(t)
  /\ players' = [players EXCEPT ![tasks[t].id] = Some(Unlock(Unwrap(@)))]
  /\ tasks' = [tasks EXCEPT ![t] = IdleTask]
  /\ UNCHANGED <<games, game_num_players, heap, seed>>

\* ------------------------------------------------------------ LockedGameState
HoldsGameGuard(t) ==
  tasks[t].pc \in {"game_guard", "add_player_count", "remove_player_count"}
\* the record behind the guard of task t
GuardCell(t) == heap[Unwrap(tasks[t].state)]
\* players()
guard_players(t) == GuardCell(t).value.players
\* has_player(player_id)
has_player(t, player_id) == Contains(guard_players(t), player_id)

\* add_player on the Vec: push unless already contained
AddPlayerVec(v, player_id) == IF Contains(v, player_id) THEN v ELSE Append(v, player_id)
\* add_player touches the count cache only inside the same `if`
AddPlayerAdjusts(v, player_id) == ~Contains(v, player_id)

\* add_player, up to the index write lock
add_player(t, player_id) ==
  LET r == Unwrap(tasks[t].state) IN
  /\ tasks[t].pc = "game_guard"
  /\ heap' = [heap EXCEPT ![r].value.players = AddPlayerVec(@, player_id)]
  /\ tasks' = [tasks EXCEPT ![t].pc =
       IF AddPlayerAdjusts(guard_players(t), player_id) THEN "add_player_count" ELSE @]
  /\ UNCHANGED <<players, games, game_num_players, seed>>

\* entry(self.id).and_modify(|v| *v = *v + delta) on a present entry
AdjustCount(id, delta) ==
  [game_num_players EXCEPT ![id] = Some(Wrapping(Unwrap(@), delta))]

\* the arithmetic of and_modify panics: the index write guard and then the
\* task's LockedGameState are dropped by the unwinding
PanicInGuard(t) ==
  /\ Commit([heap EXCEPT ![Unwrap(tasks[t].state)] = Unlock(@)], games,
            [tasks EXCEPT ![t] = IdleTask])
  /\ UNCHANGED <<players, game_num_players, seed>>

\* the index section of add_player / remove_player
adjust_game_count(t, delta) ==
  LET id == tasks[t].id IN
  IF ~IsSome(game_num_players[id])
  THEN /\ tasks' = [tasks EXCEPT ![t].pc = "game_guard"]
       /\ UNCHANGED <<players, games, game_num_players, heap, seed>>
  ELSE \/ /\ Overflows(Unwrap(game_num_players[id]), delta)
          /\ PanicInGuard(t)
       \/ /\ game_num_players' = AdjustCount(id, delta)
          /\ tasks' = [tasks EXCEPT ![t].pc = "game_guard"]
          /\ UNCHANGED <<players, games, heap, seed>>

add_player_count(t) ==
  /\ tasks[t].pc = "add_player_count"
  /\ IndexAvailable(t, "write")
  /\ adjust_game_count(t, 1)

\* remove_player, up to the index write lock
remove_player(t, player_id) ==
  LET r == Unwrap(tasks[t].state) IN
  /\ tasks[t].pc = "game_guard"
  /\ heap' = [heap EXCEPT ![r].value.players = Retain(@, player_id)]
  /\ tasks' = [tasks EXCEPT ![t].pc = "remove_player_count"]
  /\ UNCHANGED <<players, games, game_num_players, seed>>

remove_player_count(t) ==
  /\ tasks[t].pc = "remove_player_count"
  /\ IndexAvailable(t, "write")
  /\ adjust_game_count(t, -1)

\* (variant: closing also takes the id out of the game table)
close_and_remove(t) ==
  LET r == Unwrap(tasks[t].state) IN
  /\ tasks[t].pc = "game_guard"
  /\ heap' = [heap EXCEPT ![r].value.closed = TRUE]
  /\ games' = [games EXCEPT ![tasks[t].id] = None]
  /\ UNCHANGED <<players, game_num_players, tasks, seed>>

close(t) ==
  LET r == Unwrap(tasks[t].state) IN
  /\ tasks[t].pc = "game_guard"
  /\ heap' = [heap EXCEPT ![r].value.closed = TRUE]
  /\ UNCHANGED <<players, games, game_num_players, tasks, seed>>

\* the LockedGameState goes out of scope: the OwnedMutexGuard is dropped
drop_game_guard(t) ==
  LET r == Unwrap(tasks[t].state) IN
  /\ tasks[t].pc = "game_guard"
  /\ Commit([heap EXCEPT ![r] = Unlock(@)], games, [tasks EXCEPT ![t] = IdleTask])
  /\ UNCHANGED <<players, game_num_players, seed>>

\* ------------------------------------------------------------ specification
\* the calls of the game tier, over game ids G, player ids P, member lists L
GameStep(t, G, P, L) ==
  \/ \E id \in G, ps \in L : register_game(t, id, ps)
  \/ \E id \in G : lock_game_state_miss(t, id)
  \/ \E id \in G : lock_game_state_lookup(t, id)
  \/ lock_game_state_acquire(t)
  \/ lock_game_state_purge(t)
  \/ \E p \in P : add_player(t, p)
  \/ add_player_count(t)
  \/ \E p \in P : remove_player(t, p)
  \/ remove_player_count(t)
  \/ close(t)
  \/ drop_game_guard(t)

\* the calls of the player tier, over player ids P and game ids G
PlayerStep(t, P, G) ==
  \/ \E id \in P : lock_player_state_lookup(t, id)
  \/ lock_player_state_acquire(t)
  \/ \E id \in G : join_game(t, id)
  \/ leave_game(t)
  \/ drop_player_guard(t)

OneGame == {7}
OnePlayer == {1}
TwoPlayers == {1, 2}

\* the data the spec's own example seeds the store with
ExampleSeed == <<[id |-> 7, players |-> <<1, 2>>]>>

\* Both tiers, every task, one game id and one player id: the lease protocol.
LeaseLists == ListsOver(OnePlayer)
Next ==
  \E t \in Tasks :
    \/ GameStep(t, OneGame, OnePlayer, LeaseLists)
    \/ PlayerStep(t, OnePlayer, OneGame)
Init == \E data \in {<<>>, <<[id |-> 7, players |-> <<1>>]>>} : Boot(data) /\ seed = <<>>
Spec == Init /\ [][Next]_vars

\* The scheduling the lease protocol runs under: a Mutex that is free again
\* and again is eventually given to a waiting task (tokio's Mutex queues its
\* waiters), a task that holds a guard eventually lets it go out of scope,
\* and a task inside an index section finishes it.
LockStep(t) ==
  \/ lock_player_state_acquire(t)
  \/ lock_game_state_acquire(t)
  \/ drop_player_guard(t)
  \/ drop_game_guard(t)
IndexStep(t) ==
  \/ lock_game_state_purge(t)
  \/ add_player_count(t)
  \/ remove_player_count(t)
Fairness == \A t \in Tasks : SF_vars(LockStep(t)) /\ WF_vars(IndexStep(t))
SpecFair == Init /\ [][Next]_vars /\ Fairness

\* The game tier, two tasks, one game id, two player ids: membership and the
\* count cache.
GameTasks == {1, 2}
GameLists == ListsOver(TwoPlayers)
NextGame == \E t \in GameTasks : GameStep(t, OneGame, TwoPlayers, GameLists)
InitGame == \E data \in {<<>>, ExampleSeed} : Boot(data) /\ seed = <<>>
SpecGame == InitGame /\ [][NextGame]_vars

\* Construction from every seed of at most MaxSeedRows rows over two game ids
\* and two player ids, then one task that leases and reads.
SeedTasks == {1}
SeedStep(t) ==
  \/ \E id \in PlayerIds : lock_player_state_lookup(t, id)
  \/ lock_player_state_acquire(t)
  \/ drop_player_guard(t)
  \/ \E id \in GameIds : lock_game_state_miss(t, id)
  \/ \E id \in GameIds : lock_game_state_lookup(t, id)
  \/ lock_game_state_acquire(t)
  \/ drop_game_guard(t)
NextSeed == \E t \in SeedTasks : SeedStep(t)
InitSeed == \E data \in SeedsOver(GameIds, TwoPlayers) : Boot(data) /\ seed = data
SpecSeed == InitSeed /\ [][NextSeed]_vars

\* The player tier, every task, two player ids, two game ids.
NextPlayer == \E t \in Tasks : PlayerStep(t, TwoPlayers, GameIds)
InitPlayer == \E data \in {<<>>, ExampleSeed} : Boot(data) /\ seed = <<>>
SpecPlayer == InitPlayer /\ [][NextPlayer]_vars

\* Both tiers, every task, every game id, two player ids, without the
\* membership calls: leases of distinct entities side by side.
NoMembers == {<<>>}
IndepStep(t) ==
  \/ \E id \in GameIds, ps \in NoMembers : register_game(t, id, ps)
  \/ \E id \in GameIds : lock_game_state_miss(t, id)
  \/ \E id \in GameIds : lock_game_state_lookup(t, id)
  \/ lock_game_state_acquire(t)
  \/ lock_game_state_purge(t)
  \/ close(t)
  \/ drop_game_guard(t)
  \/ \E id \in TwoPlayers : lock_player_state_lookup(t, id)
  \/ lock_player_state_acquire(t)
  \/ drop_player_guard(t)
NextIndep == \E t \in Tasks : IndepStep(t)
InitIndep ==
  \E data \in {<<>>, <<[id |-> 7, players |-> <<1>>], [id |-> 8, players |-> <<2>>]>>} :
    Boot(data) /\ seed = <<>>
SpecIndep == InitIndep /\ [][NextIndep]_vars

\* The game tier over one game id and one player id (so that a record has at
\* most one member), every task, and fetch_num_players over slices of at
\* most two entries for a registered and a never registered game id.
PreviousCounts == {1}
EntryLists == UNION {[1..k -> [id : GameIds, num_players : PreviousCounts]] : k \in 1..2}
SnapStep(t) ==
  \/ GameStep(t, OneGame, OnePlayer, LeaseLists)
  \/ \E es \in EntryLists : fetch_num_players(t, es)
  \/ fetch_num_players_entry(t)
  \/ fetch_num_players_return(t)
NextSnap == \E t \in Tasks : SnapStep(t)
InitSnap == Boot(<<>>) /\ seed = <<>>
SpecSnap == InitSnap /\ [][NextSnap]_vars

\* The lease protocol of Spec with callers that may abandon a lease.
NextAbandon ==
  \E t \in Tasks :
    \/ GameStep(t, OneGame, OnePlayer, LeaseLists)
    \/ PlayerStep(t, OnePlayer, OneGame)
    \/ abandon_lock_player_state(t)
    \/ abandon_lock_game_state(t)
SpecAbandon == Init /\ [][NextAbandon]_vars

\* ============================================================ claims
\* the task is inside add_player / remove_player, between the Vec update and
\* the count update
InFlight(t) == tasks[t].pc \in {"add_player_count", "remove_player_count"}
\* the members of the record the index stores under id
IndexMembers(id) == heap[Unwrap(games[id])].value.players
\* the task holds the entity lock of a game record
HoldsGameLock(t) == HoldsGameGuard(t) \/ tasks[t].pc = "lock_game_state_purge"
\* the guard of task t is on a record that register_game has replaced
Orphaned(t) ==
  /\ HoldsGameGuard(t)
  /\ IsSome(games[tasks[t].id])
  /\ games[tasks[t].id] # tasks[t].state

\* C1 (as stated): whenever no add_player / remove_player call is in flight,
\* the cached count of every game id in the index equals the length of the
\* members of the record stored under that id.
C1_CountCacheConsistent ==
  (\A t \in Tasks : ~InFlight(t)) =>
    \A id \in GameIds :
      IsSome(games[id]) => game_num_players[id] = Some(Len(IndexMembers(id)))

\* C2 (as stated): for every player id and every game id at most one guard
\* carrying that id is active.
C2_OneGuardPerId ==
  /\ \A id \in PlayerIds :
       Cardinality({t \in Tasks : HoldsPlayerGuard(t) /\ tasks[t].id = id}) <= 1
  /\ \A id \in GameIds :
       Cardinality({t \in Tasks : HoldsGameGuard(t) /\ tasks[t].id = id}) <= 1

\* C2 (amended): at most one guard is active per player id and per game
\* record, and a record's Mutex is locked exactly while a task holds it.
C2_OneGuardPerRecord ==
  /\ \A id \in PlayerIds :
       /\ Cardinality({t \in Tasks : HoldsPlayerGuard(t) /\ tasks[t].id = id}) <= 1
       /\ IsSome(players[id]) =>
            (Unwrap(players[id]).locked <=>
               \E t \in Tasks : HoldsPlayerGuard(t) /\ tasks[t].id = id)
  /\ \A r \in RecIds :
       /\ Cardinality({t \in Tasks : HoldsGameLock(t) /\ tasks[t].state = Some(r)}) <= 1
       /\ heap[r].locked <=> \E t \in Tasks : HoldsGameLock(t) /\ tasks[t].state = Some(r)

\* C2 witness: one task holds a game guard while another task waits for the
\* lock of the same record.
C2_Contention ==
  \E t1, t2 \in Tasks :
    /\ HoldsGameGuard(t1)
    /\ tasks[t2].pc = "lock_game_state_await"
    /\ tasks[t2].state = tasks[t1].state

\* C3: a lock_game_state that returns a guard returns it on a record that is
\* not closed; a task that gets the lock of a closed record takes the
\* not-found path, whether it started waiting before or after the close; and
\* a closed record stays closed for as long as anything refers to it.
C3_ClosedNeverLeased ==
  [][\A t \in Tasks :
       /\ (tasks[t].pc = "lock_game_state_await" /\ tasks'[t].pc = "game_guard")
            => ~heap'[Unwrap(tasks'[t].state)].value.closed
       /\ (tasks[t].pc = "lock_game_state_await" /\ tasks'[t].pc # "lock_game_state_await"
             /\ heap[Unwrap(tasks[t].state)].value.closed)
            => tasks'[t].pc = "lock_game_state_purge"
       /\ (tasks[t].pc = "lock_game_state_purge" /\ tasks'[t].pc # "lock_game_state_purge")
            => tasks'[t] = IdleTask
       /\ (IsSome(tasks[t].state) /\ IsSome(tasks'[t].state)
             /\ heap[Unwrap(tasks[t].state)].value.closed)
            => heap'[Unwrap(tasks'[t].state)].value.closed
    ]_vars

\* C3 witness: a task that was waiting for a record's lock got it after the
\* record was closed and is on the not-found path, while another task waits
\* for the same record.
C3_WaiterFindsClosed ==
  \E t1, t2 \in Tasks :
    /\ tasks[t1].pc = "lock_game_state_purge"
    /\ tasks[t2].pc = "lock_game_state_await"
    /\ tasks[t2].state = tasks[t1].state

\* C4 (as stated): when a lock_game_state(G) finds the record stored under G
\* closed and returns not found, G is afterwards in neither the game table
\* nor the count cache.
C4_PurgeRemovesGameAndCount ==
  [][\A t \in Tasks :
       (/\ tasks[t].pc = "lock_game_state_purge"
        /\ games[tasks[t].id] = tasks[t].state
        /\ tasks'[t].pc = "idle")
       => (~IsSome(games'[tasks[t].id]) /\ ~IsSome(game_num_players'[tasks[t].id]))
    ]_vars

\* C6 (as stated): through a held guard, add_player(p) for a p that is
\* already a member leaves the members unchanged, with p in them exactly
\* once, and does not touch the cached count.
C6_AddPresentIsNoOp ==
  \A t \in Tasks : \A p \in PlayerIds :
    (tasks[t].pc = "game_guard" /\ has_player(t, p)) =>
      /\ AddPlayerVec(guard_players(t), p) = guard_players(t)
      /\ Occurrences(AddPlayerVec(guard_players(t), p), p) = 1
      /\ ~AddPlayerAdjusts(guard_players(t), p)

\* C7: register_game(id, m), in whatever state the id is, leaves under id a
\* fresh, unlocked, open record whose members are m, held by no task, and
\* the cached count len(m).
C7_RegisterOverwrites ==
  [][\A t \in GameTasks : \A id \in OneGame : \A m \in GameLists :
       register_game(t, id, m) =>
         /\ IsSome(games'[id])
         /\ heap'[Unwrap(games'[id])] = [value |-> [players |-> m, closed |-> FALSE],
                                          locked |-> FALSE, live |-> TRUE]
         /\ \A u \in Tasks : tasks'[u].state # games'[id]
         /\ game_num_players'[id] = Some(Len(m))
    ]_vars

\* C7 witness: the id was present when it was registered again: a task
\* still holds a guard on the replaced record, which has members the new
\* record lacks, and the count is the new record's.
C7_ReplacedWhileHeld ==
  \E t \in Tasks :
    /\ Orphaned(t)
    /\ tasks[t].pc = "game_guard"
    /\ has_player(t, 1)
    /\ ~Contains(IndexMembers(tasks[t].id), 1)
    /\ game_num_players[tasks[t].id] = Some(Len(IndexMembers(tasks[t].id)))

\* C8 (as stated): a mutation made through a guard on a replaced record
\* leaves the game table, the new record and the cached count unchanged.
C8_OrphanLeavesIndexAlone ==
  [][\A t \in Tasks :
       (/\ Orphaned(t)
        /\ \/ \E p \in PlayerIds : add_player(t, p) \/ remove_player(t, p)
           \/ add_player_count(t)
           \/ remove_player_count(t)
           \/ close(t))
       => /\ games'[tasks[t].id] = games[tasks[t].id]
          /\ heap'[Unwrap(games[tasks[t].id])] = heap[Unwrap(games[tasks[t].id])]
          /\ game_num_players'[tasks[t].id] = game_num_players[tasks[t].id]
    ]_vars

\* the task waits for a Mutex that is locked
Blocked(t) ==
  \/ tasks[t].pc = "lock_player_state_await" /\ ~MutexFree(Unwrap(players[tasks[t].id]))
  \/ tasks[t].pc = "lock_game_state_await" /\ ~MutexFree(heap[Unwrap(tasks[t].state)])

\* C5: in no reachable state are all tasks blocked; every lock_player_state
\* eventually returns its guard and every lock_game_state eventually returns
\* a guard or None.
C5_EventuallyAcquires ==
  /\ [](\E t \in Tasks : ~Blocked(t))
  /\ \A t \in Tasks :
       /\ (tasks[t].pc = "lock_player_state_await") ~> (tasks[t].pc = "player_guard")
       /\ (tasks[t].pc = "lock_game_state_await") ~> (tasks[t].pc \in {"game_guard", "idle"})

\* C5 witness: one task is blocked on a player's Mutex that another task
\* holds.
C5_BlockedOnPlayer ==
  \E t1, t2 \in Tasks :
    /\ HoldsPlayerGuard(t1)
    /\ tasks[t2].id = tasks[t1].id
    /\ Blocked(t2)

\* the rows of the seed that name game id g / list player p
RowsOfGame(g) == {i \in 1..Len(seed) : seed[i].id = g}
RowsOfPlayer(p) == {i \in 1..Len(seed) : Contains(seed[i].players, p)}
LastOf(S) == CHOOSE i \in S : \A j \in S : j <= i
\* what the store answers for game id g and member list ms
GameSeededAs(g, ms) ==
  /\ game_num_players[g] = Some(Len(ms))
  /\ IsSome(games[g])
  /\ \A t \in Tasks :
       (tasks[t].pc \in {"lock_game_state_await", "lock_game_state_purge", "game_guard"}
          /\ tasks[t].id = g)
       => /\ tasks[t].pc # "lock_game_state_purge"
          /\ GuardCell(t).value = [players |-> ms, closed |-> FALSE]
\* what a guard on player p answers
PlayerSeededIn(p, joined) ==
  \A t \in Tasks : (HoldsPlayerGuard(t) /\ tasks[t].id = p) => joined_game_id(t) = joined

\* C9 (as stated): for every row (g, ms) of the seed, the count of g is
\* len(ms), a lease of g returns an open guard with members ms, and a guard
\* on every p in ms answers joined_game_id() = Some(g).
C9_SeededAsListed ==
  \A i \in 1..Len(seed) :
    /\ GameSeededAs(seed[i].id, seed[i].players)
    /\ \A p \in PlayerIds :
         Contains(seed[i].players, p) => PlayerSeededIn(p, Some(seed[i].id))

\* C9 (amended): the last row of a game id decides its count and members, the
\* last row that lists a player decides the game the player is attached to;
\* an id in no row is absent, a player in no row is unattached.
C9_SeededLastRowWins ==
  /\ \A g \in GameIds :
       IF RowsOfGame(g) # {}
       THEN GameSeededAs(g, seed[LastOf(RowsOfGame(g))].players)
       ELSE ~IsSome(games[g]) /\ ~IsSome(game_num_players[g])
  /\ \A p \in PlayerIds :
       IF RowsOfPlayer(p) # {}
       THEN IsSome(players[p]) /\ PlayerSeededIn(p, Some(seed[LastOf(RowsOfPlayer(p))].id))
       ELSE PlayerSeededIn(p, None)

\* C9 witness: the store was seeded with [{7, [1, 2]}], a guard on player 2
\* answers Some(7) and the count of 7 is 2.
C9_ExampleSeeded ==
  /\ seed = ExampleSeed
  /\ game_num_players[7] = Some(2)
  /\ \E t \in Tasks :
       HoldsPlayerGuard(t) /\ tasks[t].id = 2 /\ joined_game_id(t) = Some(7)

\* C10 (as stated): lock_player_state always returns a guard, and the guard
\* of a call that created the record answers joined_game_id() = None when it
\* is returned.
C10_CreatedGuardUnattached ==
  [][\A t \in Tasks :
       (tasks[t].pc = "lock_player_state_await" /\ tasks'[t].pc = "player_guard"
          /\ tasks[t].created)
       => Unwrap(players'[tasks[t].id]).value.game_id = None
    ]_vars

\* C10 (amended): lock_player_state never fails: its lookup leaves a record
\* under the id (for an unknown id the default one: no game, no sender,
\* unlocked), records are never removed, and the wait ends only with the
\* guard; the guard of a call that created the record answers
\* joined_game_id() = None unless a guard of another call has called
\* join_game on the record in between.
C10_NeverFails ==
  [][\A t \in Tasks :
       /\ (tasks[t].pc = "idle" /\ tasks'[t].pc = "lock_player_state_await")
            => /\ IsSome(players'[tasks'[t].id])
               /\ tasks'[t].created = ~IsSome(players[tasks'[t].id])
               /\ ~IsSome(players[tasks'[t].id]) =>
                    players'[tasks'[t].id] =
                      Some([value |-> [game_id |-> None, sender |-> None], locked |-> FALSE])
       /\ (tasks[t].pc = "lock_player_state_await" /\ tasks'[t].pc # tasks[t].pc)
            => (tasks'[t] = [tasks[t] EXCEPT !.pc = "player_guard"]
                /\ IsSome(players'[tasks[t].id]))
       /\ (tasks[t].pc = "lock_player_state_await" /\ tasks'[t].pc = "player_guard"
             /\ tasks[t].fresh)
            => Unwrap(players'[tasks[t].id]).value.game_id = None
       /\ \A p \in PlayerIds : IsSome(players[p]) => IsSome(players'[p])
    ]_vars

\* C10 witness: a task holds the guard of a record its own call created, and
\* the guard answers None.
C10_CreatedAndLeased ==
  \E t \in Tasks :
    HoldsPlayerGuard(t) /\ tasks[t].created /\ joined_game_id(t) = None

\* C11: a task that waits for an entity lock can take it exactly when no
\* other task holds the lock of that very record, whatever locks of other
\* records (other game ids, other player ids, the other tier) are held; and
\* a task between calls can start a lease of any id (the lookup is an index
\* section and waits for no entity lock).
C11_IndependentLeases ==
  \A t \in Tasks :
    /\ tasks[t].pc = "lock_game_state_await" =>
         ((ENABLED lock_game_state_acquire(t)) <=>
            ~\E u \in Tasks \ {t} : HoldsGameLock(u) /\ tasks[u].state = tasks[t].state)
    /\ tasks[t].pc = "lock_player_state_await" =>
         ((ENABLED lock_player_state_acquire(t)) <=>
            ~\E u \in Tasks \ {t} : HoldsPlayerGuard(u) /\ tasks[u].id = tasks[t].id)
    /\ tasks[t].pc = "idle" =>
         /\ \A id \in GameIds :
              ENABLED (lock_game_state_lookup(t, id) \/ lock_game_state_miss(t, id))
         /\ \A id \in PlayerIds : ENABLED lock_player_state_lookup(t, id)

\* C11 witness: one task holds a guard on game 7 while another task, which
\* leased game 8 in the meantime, holds a guard on game 8.
C11_TwoGamesHeld ==
  \E t1, t2 \in Tasks :
    /\ tasks[t1].pc = "game_guard" /\ tasks[t1].id = 7
    /\ tasks[t2].pc = "game_guard" /\ tasks[t2].id = 8

\* the task is inside fetch_num_players
Fetching(t) == tasks[t].pc = "fetch_num_players"

\* C12 (as stated): fetch_num_players waits for nothing: its next step (an
\* entry or the return) is enabled in every state, whatever guards are
\* held; a step on an entry whose id is in the count cache sets the entry's
\* num_players to the cached value, a step on an entry whose id is not
\* leaves the entry as it was; no step of the call changes the index or a
\* record.
C12_SnapshotReadsCache ==
  [][\A t \in Tasks :
       /\ Fetching(t) => ENABLED (fetch_num_players_entry(t) \/ fetch_num_players_return(t))
       /\ (Fetching(t) /\ tasks'[t] # tasks[t]) =>
            /\ UNCHANGED <<players, games, game_num_players, heap>>
            /\ tasks'[t].pc = "fetch_num_players" =>
                 LET i == tasks[t].at
                     game == tasks[t].entries[i]
                 IN /\ tasks'[t].at = i + 1
                    /\ \A k \in 1..Len(tasks[t].entries) :
                         k # i => tasks'[t].entries[k] = tasks[t].entries[k]
                    /\ tasks'[t].entries[i].id = game.id
                    /\ tasks'[t].entries[i].num_players =
                         IF IsSome(game_num_players[game.id])
                         THEN Unwrap(game_num_players[game.id])
                         ELSE game.num_players
    ]_vars

\* C13 (as stated): through a held guard, remove_player(p) leaves the
\* members without p, the others in their previous order, and the cached
\* count of the guard's game id one lower than it was, whether or not p was
\* a member.
C13_RemoveDecrementsByOne ==
  [][\A t \in Tasks :
       /\ \A p \in PlayerIds :
            remove_player(t, p) =>
              /\ GuardCell(t)'.value.players =
                   SelectSeq(guard_players(t), LAMBDA x : x # p)
              /\ tasks'[t].pc = "remove_player_count"
       /\ remove_player_count(t) =>
            /\ tasks'[t].pc = "game_guard"
            /\ game_num_players'[tasks[t].id] =
                 Some(Unwrap(game_num_players[tasks[t].id]) - 1)
    ]_vars

IndexCell(g, h, id) == IF IsSome(g[id]) THEN Some(h[Unwrap(g[id])]) ELSE None

\* C15: close() sets closed on the held record and changes nothing else;
\* neither close() nor the drop of the guard takes the entry out of the
\* game table or the count cache (the drop only unlocks the record); and a
\* guard whose record is closed still answers players() and takes
\* add_player and remove_player, which act on the members as on an open
\* record, until it is dropped.
C15_ClosureIsLazy ==
  /\ [](\A t \in Tasks :
         (tasks[t].pc = "game_guard" /\ GuardCell(t).value.closed) =>
           /\ ENABLED drop_game_guard(t)
           /\ \A p \in TwoPlayers : ENABLED add_player(t, p) /\ ENABLED remove_player(t, p))
  /\ [][\A t \in Tasks :
         /\ close(t) =>
              /\ heap' = [heap EXCEPT ![Unwrap(tasks[t].state)].value.closed = TRUE]
              /\ UNCHANGED <<games, game_num_players, players, tasks>>
         /\ (tasks[t].pc = "game_guard" /\ tasks'[t].pc = "idle") =>
              /\ game_num_players' = game_num_players
              /\ \A id \in GameIds :
                   IndexCell(games', heap', id) =
                     IF games[id] = tasks[t].state
                     THEN Some(Unlock(GuardCell(t)))
                     ELSE IndexCell(games, heap, id)
         /\ (tasks[t].pc = "game_guard" /\ GuardCell(t).value.closed
               /\ tasks'[t].pc \in {"add_player_count", "remove_player_count", "game_guard"}) =>
              \E p \in TwoPlayers :
                GuardCell(t)'.value \in
                  {[players |-> AddPlayerVec(guard_players(t), p), closed |-> TRUE],
                   [players |-> Retain(guard_players(t), p), closed |-> TRUE]}
      ]_vars

\* C15 witness: the guard that closed the record of game 7 has been dropped;
\* the closed record, with a member that was added after the close, is
\* still the one in the game table, and no task has a lease on it.
C15_ClosedStillIndexed ==
  /\ IsSome(games[7])
  /\ heap[Unwrap(games[7])] =
       [value |-> [players |-> <<2, 1>>, closed |-> TRUE], locked |-> FALSE, live |-> TRUE]
  /\ \A t \in Tasks : tasks[t].pc = "idle"

\* the task leaves a lease it was waiting in without a guard and without
\* having had the lock
Abandons(t) ==
  /\ tasks[t].pc \in {"lock_player_state_await", "lock_game_state_await"}
  /\ tasks'[t].pc = "idle"

C17_MembersHaveNoDuplicates ==
  \A r \in RecIds :
    heap[r].live => \A p \in PlayerIds : Occurrences(heap[r].value.players, p) <= 1

\* C18 (as stated): a record that is in the game table and is not closed
\* stays in the table (until it is closed or registered again): no step
\* takes its id out of the table, so a lock_game_state of the id started
\* next finds it - also when the step is the purge of a task that looked up
\* the id's previous, since closed, record before the registration.
C18_OpenRecordStaysIndexed ==
  [][\A id \in GameIds :
       (IsSome(games[id]) /\ ~heap[Unwrap(games[id])].value.closed)
         => IsSome(games'[id])
    ]_vars

\* C19 (as stated): remove_player never executes its decrement while the
\* cached count of the guard's game id is 0: whenever a task is about to
\* enter the index section of remove_player, the `*v - 1` it will run does
\* not go below 0.
C19_NoDecrementAtZero ==
  \A t \in Tasks :
    (tasks[t].pc = "remove_player_count" /\ IsSome(game_num_players[tasks[t].id]))
      => ~Overflows(Unwrap(game_num_players[tasks[t].id]), -1)

\* the task holds, before the step, the guard of player id p
GuardOn(t, p) == HoldsPlayerGuard(t) /\ tasks[t].id = p

\* C20: every lock_player_state(id) resolves to the one record of the id:
\* the lookup leaves a record that exists as it is (contents and lock), a
\* record is never removed, its game_id is changed only by join_game /
\* leave_game of the task that holds its guard, its Mutex is locked only by
\* a waiting call of that id and unlocked only by the drop of its guard; so
\* at most one guard per id is active and every guard answers the game_id
\* that the last join_game / leave_game on the id left.
C20_OneRecordPerPlayer ==
  /\ [](\A p \in PlayerIds : Cardinality({t \in Tasks : GuardOn(t, p)}) <= 1)
  /\ [][\A p \in PlayerIds :
         /\ \A t \in Tasks :
              (tasks[t].pc = "idle" /\ tasks'[t].pc = "lock_player_state_await"
                 /\ tasks'[t].id = p /\ IsSome(players[p]))
              => players' = players
         /\ IsSome(players[p]) =>
              /\ IsSome(players'[p])
              /\ Unwrap(players'[p]).value # Unwrap(players[p]).value =>
                   \E t \in Tasks :
                     /\ GuardOn(t, p)
                     /\ tasks'[t].pc = "player_guard"
                     /\ Unwrap(players'[p]).value.sender = Unwrap(players[p]).value.sender
              /\ (Unwrap(players[p]).locked /\ ~Unwrap(players'[p]).locked) =>
                   \E t \in Tasks : GuardOn(t, p) /\ tasks'[t].pc = "idle"
              /\ (~Unwrap(players[p]).locked /\ Unwrap(players'[p]).locked) =>
                   \E t \in Tasks :
                     /\ tasks[t].pc = "lock_player_state_await" /\ tasks[t].id = p
                     /\ tasks'[t].pc = "player_guard"
                     /\ Unwrap(players'[p]).value = Unwrap(players[p]).value
      ]_vars

\* C20 witness: a task holds the guard of the record that the call of
\* another task created, and has joined game 8 through it; the creating
\* call still waits for the same record.
C20_SharedRecordJoined ==
  \E t1, t2 \in Tasks :
    /\ GuardOn(t1, 1) /\ ~tasks[t1].created /\ joined_game_id(t1) = Some(8)
    /\ tasks[t2].pc = "lock_player_state_await" /\ tasks[t2].id = 1 /\ tasks[t2].created

====
